---- MODULE Spec2Model ----
(***************************************************************************)
(* Model of codes/models/gpt_voice/gpt_asr.py: the MelEncoder's time       *)
(* arithmetic, GptAsr.forward's target padding and GptAsr.inference_beam   *)
(* (reached through inference_beam_topk and inference_beam_sampled).       *)
(*                                                                         *)
(* Tensors are modelled by what the claims read of them: a token tensor is *)
(* a sequence of rows, each row a sequence of token ids; the mel tensor is *)
(* its batch size and its time length.  Probabilities are exact integers:  *)
(* every next-token distribution has the same total DistTotal, so a        *)
(* cumulative probability of a length-n hypothesis is its integer          *)
(* numerator over DistTotal^(n-1), and hypotheses of one step compare by   *)
(* numerator.  The transformer and its heads are an unknown deterministic  *)
(* function of the mel and the hypothesis (inference runs without          *)
(* dropout); it is the variable net, fixed when a call brings its mel.     *)
(*                                                                         *)
(* beam_width and NUMBER_SYMBOLS are scaled down (the source has 16 and    *)
(* len(symbols)) so that the candidates of a step can be enumerated; the   *)
(* model keeps the source's relations k = beam_width and                   *)
(* NUMBER_TEXT_TOKENS = NUMBER_SYMBOLS + 1 >= beam_width.                  *)
(***************************************************************************)
EXTENDS Integers, Sequences, FiniteSets, TLC

\* ------------------------------------------------------------------ bounds
MaxSymbols == 4
MaxTargets == 2
MaxMelT == 1
MaxEncT == 60
MaxBatch == 2

\* ------------------------------------------------------- program constants
beam_width == 2
NUMBER_SYMBOLS == 2
NUMBER_TEXT_TOKENS == NUMBER_SYMBOLS + 1
PAD == 0

Tokens == 0 .. (NUMBER_TEXT_TOKENS - 1)
TargetSymbols == 0 .. (NUMBER_SYMBOLS - 1)
\* The max_mel_frames arguments a model is constructed with.
MelFrameLimits == {16}

\* max_symbols_per_phrase, max_mel_frames: the fields __init__ sets (the
\*     second already divided by 4).
\* net: the network of the call, see above.
\* op, pc: the method called and the position in it: "idle", "forward",
\*     "entered" (at the assertion), "loop" (at the while test), "sampled"
\*     (after the sampler, line 132), "after_loop", "done", "failed".
\* b, mel_T: batch size and time length of the mel argument.
\* text_targets_in, text_targets: forward's argument and its padded local.
\* enc_frames, mel_emb_frames, mel_emb_rows: the time length of the encoded
\*     mel before and after F.pad (0 before it is encoded), and mel_emb's
\*     batch dimension.
\* text_seq, probabilities, topk: the locals of inference_beam of those
\*     names (<< >> while unset).
\* steps: the number of completed iterations of the while loop.
\* warned: the warning was printed.
VARIABLES
    max_symbols_per_phrase, max_mel_frames, net,
    op, pc, b, mel_T, text_targets_in,
    text_targets, enc_frames, mel_emb_frames, mel_emb_rows,
    text_seq, probabilities, topk, steps, warned

vars == << max_symbols_per_phrase, max_mel_frames, net,
           op, pc, b, mel_T, text_targets_in,
           text_targets, enc_frames, mel_emb_frames, mel_emb_rows,
           text_seq, probabilities, topk, steps, warned >>

config == << max_symbols_per_phrase, max_mel_frames >>
beam == << text_seq, probabilities, topk, steps, mel_emb_rows >>

Min(a, b2) == IF a <= b2 THEN a ELSE b2

Range(s) == { s[i] : i \in 1 .. Len(s) }

\* ------------------------------------------------------------- MelEncoder
\* Output length of nn.Conv1d along time (dilation 1).
Conv1dOut_nopad(T, kernel_size, stride, padding) ==
    ((T - (kernel_size - 1) - 1) \div stride) + 1

Conv1dOut(T, kernel_size, stride, padding) ==
    ((T + 2 * padding - (kernel_size - 1) - 1) \div stride) + 1

\* ResBlock: two kernel-5 padding-2 convolutions; BatchNorm1d, ReLU and the
\* residual sum keep the length.
ResBlock(T) == Conv1dOut(Conv1dOut(T, 5, 1, 2), 5, 1, 2)

\* MelEncoder.encoder, layer by layer.
MelEncoder(T) ==
    LET l1 == Conv1dOut(T, 7, 1, 3)
        l2 == ResBlock(ResBlock(l1))
        l3 == Conv1dOut(l2, 5, 2, 2)
        l4 == ResBlock(ResBlock(ResBlock(l3)))
        l5 == Conv1dOut(l4, 5, 2, 2)
    IN  ResBlock(ResBlock(ResBlock(l5)))

\* ------------------------------------------------------------------ F.pad
\* F.pad of one row in constant mode: a negative amount crops that side.
PadSide(row, right, value) ==
    IF right >= 0
    THEN row \o [i \in 1 .. right |-> value]
    ELSE SubSeq(row, 1, Len(row) + right)

PadFront(row, value) == << value >> \o row

\* Length of a dimension after F.pad(x, (0, right)).
PadLen(len, right) == len + right

\* ---------------------------------------------------------------- network
\* A next-token distribution: integer weights over Tokens whose total is
\* DistTotal.  "asc" makes the pad the least likely token, "desc" the most
\* likely, "tied" makes the pad and symbol 1 equally the most likely.
DistTotal == NUMBER_TEXT_TOKENS * (NUMBER_TEXT_TOKENS + 1)

DistNames == {"asc", "desc", "tied"}

Distribution(name) ==
    [t \in Tokens |->
        CASE name = "asc"  -> 2 * (t + 1)
          [] name = "desc" -> 2 * (NUMBER_TEXT_TOKENS - t)
          [] OTHER         -> IF t <= 1
                              THEN (NUMBER_TEXT_TOKENS * (NUMBER_TEXT_TOKENS - 1) + 4) \div 2
                              ELSE 2]

\* The networks of the model: the distribution depends on whether the
\* hypothesis has just emitted the pad token.
Contexts == {"after_pad", "after_symbol"}

Context(row) == IF row[Len(row)] = PAD THEN "after_pad" ELSE "after_symbol"

Networks == [Contexts -> DistNames]

\* F.softmax(temperature * text_logits[:, -1]) for one hypothesis row.
Softmax(row) == Distribution(net[Context(row)])

\* ---------------------------------------------------------------- samplers
Injective(f, n) == \A i, j \in 1 .. n : i # j => f[i] # f[j]

\* torch.topk(distribution, k): the k largest, largest first; ties in any
\* order.
topk_sampler(distribution, k) ==
    { [indices |-> idx, values |-> [i \in 1 .. k |-> distribution[idx[i]]]] :
        idx \in { f \in [1 .. k -> Tokens] :
                    /\ Injective(f, k)
                    /\ \A i \in 1 .. (k - 1) : distribution[f[i]] >= distribution[f[i + 1]]
                    /\ \A t \in Tokens \ Range(f) : distribution[t] <= distribution[f[k]] } }

\* torch.multinomial without replacement, then gather: any k distinct
\* tokens (all weights are positive), in any order.
multinomial_sampler(distribution, k) ==
    { [indices |-> idx, values |-> [i \in 1 .. k |-> distribution[idx[i]]]] :
        idx \in { f \in [1 .. k -> Tokens] : Injective(f, k) } }

sampler_fn(name, distribution, k) ==
    IF name = "inference_beam_topk"
    THEN topk_sampler(distribution, k)
    ELSE multinomial_sampler(distribution, k)

\* The sampler applied to the batch of rows: one output per row.
SampleRows(name, rows) ==
    { f \in [1 .. Len(rows) -> UNION { sampler_fn(name, Softmax(rows[i]), beam_width) :
                                         i \in 1 .. Len(rows) }] :
        \A i \in 1 .. Len(rows) : f[i] \in sampler_fn(name, Softmax(rows[i]), beam_width) }

\* ---------------------------------------------------------- tensor helpers
\* Tensor.repeat_interleave(k, dim=0).
repeat_interleave(s, k) ==
    [c \in 1 .. (Len(s) * k) |-> s[((c - 1) \div k) + 1]]

\* topk.values.flatten() and topk.indices.flatten() of the per-row outputs.
flatten_values(tk, k) ==
    [c \in 1 .. (Len(tk) * k) |-> tk[((c - 1) \div k) + 1].values[((c - 1) % k) + 1]]

flatten_indices(tk, k) ==
    [c \in 1 .. (Len(tk) * k) |-> tk[((c - 1) \div k) + 1].indices[((c - 1) % k) + 1]]

\* a * b elementwise.
Times(x, y) == [c \in 1 .. Len(x) |-> x[c] * y[c]]

\* torch.cat([text_seq, codes.unsqueeze(1)], dim=1).
cat_codes(rows, codes) == [c \in 1 .. Len(rows) |-> Append(rows[c], codes[c])]

\* t[sort_indices].
Index_unsorted(t, sort_indices) == t

Index(t, sort_indices) == [i \in 1 .. Len(sort_indices) |-> t[sort_indices[i]]]

\* t[:beam_width].
Truncate_none(t) == t

Truncate(t) == SubSeq(t, 1, Min(beam_width, Len(t)))

\* The order torch.sort(descending=True) puts a before b in.
Descending_flipped(x, y) == x <= y

Descending(x, y) == x >= y

\* x comes before d in sorted order, equal values by ascending index.
Before(vals, x, d) ==
    \/ vals[x] # vals[d] /\ Descending(vals[x], vals[d])
    \/ vals[x] = vals[d] /\ x < d

\* The indices of S in that order.
StableOrder(vals, S) ==
    [i \in 1 .. Cardinality(S) |->
        CHOOSE x \in S : Cardinality({ d \in S : Before(vals, d, x) }) = i - 1]

\* sort_indices of torch.sort(vals, descending=True).  The sort is not
\* stable: equal values come in any order.  Only the first beam_width
\* entries of sort_indices are ever read (the two [:beam_width] slices), so
\* every order of those is produced and the rest is listed in one order.
Sort(vals) ==
    LET N == Len(vals)
        m == Min(beam_width, N)
        heads == { q \in [1 .. m -> 1 .. N] :
                     /\ Injective(q, m)
                     /\ \A i \in 1 .. (m - 1) : Descending(vals[q[i]], vals[q[i + 1]])
                     /\ \A c \in (1 .. N) \ Range(q) : Descending(vals[q[m]], vals[c]) }
    IN  { q \o StableOrder(vals, (1 .. N) \ Range(q)) : q \in heads }

\* ------------------------------------------------------- inference_beam
\* assert b == 1
BatchAssert_off(batch) == TRUE

BatchAssert(batch) == batch = 1

\* while text_seq.shape[-1] < self.max_symbols_per_phrase
LoopGuard_le(rows) == Len(rows[1]) <= max_symbols_per_phrase

LoopGuard(rows) == Len(rows[1]) < max_symbols_per_phrase

\* torch.all(torch.any(text_seq == 0, dim=1))
StopCondition_any(rows) ==
    \E r \in 1 .. Len(rows) : \E i \in 1 .. Len(rows[r]) : rows[r][i] = PAD

StopCondition(rows) ==
    \A r \in 1 .. Len(rows) : \E i \in 1 .. Len(rows[r]) : rows[r][i] = PAD

\* text_seq.shape[1] >= self.max_mel_frames
FrameLimitWarning(rows) == Len(rows[1]) >= max_mel_frames

BeamOps == {"inference_beam_topk", "inference_beam_sampled"}

Init ==
    /\ max_symbols_per_phrase \in 0 .. MaxSymbols
    /\ max_mel_frames \in { m \div 4 : m \in MelFrameLimits }
    /\ net = << >>
    /\ op = "none"
    /\ pc = "idle"
    /\ b = 0
    /\ mel_T = 0
    /\ text_targets_in = << >>
    /\ text_targets = << >>
    /\ enc_frames = 0
    /\ mel_emb_frames = 0
    /\ mel_emb_rows = 0
    /\ text_seq = << >>
    /\ probabilities = << >>
    /\ topk = << >>
    /\ steps = 0
    /\ warned = FALSE

\* forward(mel_inputs, text_targets) is called.
CallForward ==
    /\ pc = "idle"
    /\ \E batch \in 1 .. MaxBatch, T \in 1 .. MaxMelT, L \in 0 .. MaxTargets :
         \E tt \in [1 .. batch -> [1 .. L -> TargetSymbols]] :
            /\ b' = batch
            /\ mel_T' = T
            /\ text_targets_in' = tt
    /\ op' = "forward"
    /\ pc' = "forward"
    /\ UNCHANGED << config, net, beam, text_targets, enc_frames, mel_emb_frames, warned >>

\* The body of forward up to the embedding of the padded targets and the
\* padded mel encoding; the loss is a number the model does not compute.
Forward ==
    /\ pc = "forward"
    /\ LET started == [r \in 1 .. b |-> PadFront(text_targets_in[r], NUMBER_SYMBOLS)]
           right == max_symbols_per_phrase - Len(started[1])
       IN  /\ PadLen(Len(started[1]), right) >= 0
           /\ text_targets' = [r \in 1 .. b |-> PadSide(started[r], right, PAD)]
    /\ enc_frames' = MelEncoder(mel_T)
    /\ mel_emb_frames' = PadLen(MelEncoder(mel_T), max_mel_frames - MelEncoder(mel_T))
    /\ pc' = "done"
    /\ UNCHANGED << config, net, beam, op, b, mel_T, text_targets_in, warned >>

\* F.pad cropping a dimension to size 0 is rejected by the builds whose
\* check is new_dim > 0 and accepted by those whose check is new_dim >= 0.
ForwardPadError ==
    /\ pc = "forward"
    /\ LET started == [r \in 1 .. b |-> PadFront(text_targets_in[r], NUMBER_SYMBOLS)]
           right == max_symbols_per_phrase - Len(started[1])
       IN  /\ PadLen(Len(started[1]), right) <= 0
           /\ text_targets' = started
    /\ pc' = "failed"
    /\ UNCHANGED << config, net, beam, op, b, mel_T, text_targets_in, enc_frames,
                    mel_emb_frames, warned >>

\* inference_beam_topk(mel) / inference_beam_sampled(mel) is called and
\* enters inference_beam with its sampler.
CallBeam(name) ==
    /\ pc = "idle"
    /\ \E batch \in 1 .. MaxBatch, T \in 1 .. MaxMelT :
         /\ b' = batch
         /\ mel_T' = T
    /\ net' \in Networks
    /\ op' = name
    /\ pc' = "entered"
    /\ UNCHANGED << config, beam, text_targets_in, text_targets, enc_frames,
                    mel_emb_frames, warned >>

Call_inference_beam_topk == CallBeam("inference_beam_topk")

Call_inference_beam_sampled == CallBeam("inference_beam_sampled")

\* The assertion fails: the call is aborted with AssertionError.
AssertFail ==
    /\ pc = "entered"
    /\ ~ BatchAssert(b)
    /\ pc' = "failed"
    /\ UNCHANGED << config, net, beam, op, b, mel_T, text_targets_in, text_targets,
                    enc_frames, mel_emb_frames, warned >>

\* The assertion passes: the mel is encoded and padded, the beam starts as
\* the start token with probability one.
BeamSetup ==
    /\ pc = "entered"
    /\ BatchAssert(b)
    /\ enc_frames' = MelEncoder(mel_T)
    /\ mel_emb_frames' = PadLen(MelEncoder(mel_T), max_mel_frames - MelEncoder(mel_T))
    /\ mel_emb_rows' = b
    /\ text_seq' = [r \in 1 .. b |-> << NUMBER_SYMBOLS >>]
    /\ probabilities' = [r \in 1 .. b |-> 1]
    /\ pc' = "loop"
    /\ UNCHANGED << config, net, op, b, mel_T, text_targets_in, text_targets, topk,
                    steps, warned >>

\* The first half of an iteration of the while loop: the hypotheses are
\* embedded, the mel embedding is repeated to their number, the network
\* runs and the sampler draws beam_width children per hypothesis.
Sample ==
    /\ pc = "loop"
    /\ LoopGuard(text_seq)
    /\ mel_emb_rows' = IF Len(text_seq) # mel_emb_rows
                       THEN mel_emb_rows * Len(text_seq)
                       ELSE mel_emb_rows
    /\ topk' \in SampleRows(op, text_seq)
    /\ pc' = "sampled"
    /\ UNCHANGED << config, net, op, b, mel_T, text_targets_in, text_targets,
                    enc_frames, mel_emb_frames, text_seq, probabilities, steps,
                    warned >>

\* The second half: the children are scored, sorted and cut to beam_width,
\* and the loop breaks when every kept row holds a pad.  topk is a local
\* the next iteration overwrites before reading: it is dropped here.
Prune ==
    /\ pc = "sampled"
    /\ \E expanded \in { Times(repeat_interleave(probabilities, beam_width),
                               flatten_values(topk, beam_width)) },
          grown \in { cat_codes(repeat_interleave(text_seq, beam_width),
                                flatten_indices(topk, beam_width)) } :
         \E sort_indices \in Sort(expanded) :
            \E kept \in { Truncate(Index(grown, sort_indices)) } :
               /\ probabilities' = Truncate(Index(expanded, sort_indices))
               /\ text_seq' = kept
               /\ pc' = IF StopCondition(kept) THEN "after_loop" ELSE "loop"
    /\ topk' = << >>
    /\ steps' = steps + 1
    /\ UNCHANGED << config, net, op, b, mel_T, text_targets_in, text_targets,
                    enc_frames, mel_emb_frames, mel_emb_rows, warned >>

\* The while condition is false: the loop ends without a break.
LoopExit ==
    /\ pc = "loop"
    /\ ~ LoopGuard(text_seq)
    /\ pc' = "after_loop"
    /\ UNCHANGED << config, net, beam, op, b, mel_T, text_targets_in, text_targets,
                    enc_frames, mel_emb_frames, warned >>

\* The warning test and the return of text_seq.
BeamReturn ==
    /\ pc = "after_loop"
    /\ warned' = FrameLimitWarning(text_seq)
    /\ pc' = "done"
    /\ UNCHANGED << config, net, beam, op, b, mel_T, text_targets_in, text_targets,
                    enc_frames, mel_emb_frames >>

Next ==
    \/ CallForward
    \/ Forward
    \/ ForwardPadError
    \/ Call_inference_beam_topk
    \/ Call_inference_beam_sampled
    \/ AssertFail
    \/ BeamSetup
    \/ Sample
    \/ Prune
    \/ LoopExit
    \/ BeamReturn

Spec == Init /\ [][Next]_vars

\* The MelEncoder alone, over a wide range of input lengths.
EncInit == Init

EncCall ==
    /\ pc = "idle"
    /\ mel_T' \in 1 .. MaxEncT
    /\ pc' = "encode"
    /\ UNCHANGED << config, net, beam, op, b, text_targets_in, text_targets,
                    enc_frames, mel_emb_frames, warned >>

EncForward ==
    /\ pc = "encode"
    /\ enc_frames' = MelEncoder(mel_T)
    /\ pc' = "done"
    /\ UNCHANGED << config, net, beam, op, b, mel_T, text_targets_in, text_targets,
                    mel_emb_frames, warned >>

EncNext == EncCall \/ EncForward

EncSpec == EncInit /\ [][EncNext]_vars

\* The interpreter runs the call to its end: no step waits on anything.
FairSpec == Spec /\ WF_vars(Next)

\* ================================================================ claims
RowHasPad(row) == \E i \in 1 .. Len(row) : row[i] = 0

EveryRowHasPad == \A r \in 1 .. Len(text_seq) : RowHasPad(text_seq[r])

HypLen == IF Len(text_seq) = 0 THEN 0 ELSE Len(text_seq[1])

InBeam == op \in BeamOps

BeamRunning == InBeam /\ pc \in {"loop", "sampled", "after_loop", "done"}

Max(x, y) == IF x >= y THEN x ELSE y

\* The product of the network's probabilities of a row's tokens, each given
\* the tokens before it.
RECURSIVE ChainProbability(_)
ChainProbability(row) ==
    IF Len(row) <= 1 THEN 1
    ELSE LET parent == SubSeq(row, 1, Len(row) - 1)
         IN  ChainProbability(parent) * Softmax(parent)[row[Len(row)]]

\* C1: inference_beam has left its loop only if every kept row holds a pad
\* or the length has reached max_symbols_per_phrase, and it is in its loop
\* (about to test the loop condition, or inside an iteration) only if some
\* kept row holds no pad; an iteration runs only below the length limit.
C1_StopsExactlyWhen ==
    InBeam =>
        /\ pc \in {"after_loop", "done"} =>
              (EveryRowHasPad \/ HypLen >= max_symbols_per_phrase)
        /\ pc \in {"loop", "sampled"} => ~ EveryRowHasPad
        /\ pc = "sampled" => HypLen < max_symbols_per_phrase

C1_Witness ==
    /\ InBeam
    /\ pc = "after_loop"
    /\ EveryRowHasPad
    /\ HypLen < max_symbols_per_phrase

\* C2: when inference_beam has decoded and returns a beam in which some row
\* holds no pad (the length limit ended the loop), the warning was emitted.
C2_WarnedAtLimit ==
    (InBeam /\ pc = "done" /\ steps >= 1 /\ ~ EveryRowHasPad) => warned

\* C3: in every row of the returned beam, no non-pad token follows the
\* row's first pad token.
C3_FirstPadWins ==
    (InBeam /\ pc = "done") =>
        \A r \in 1 .. Len(text_seq) :
            \A i, j \in 1 .. Len(text_seq[r]) :
                (i < j /\ text_seq[r][i] = 0) => text_seq[r][j] = 0

\* C4: the beam never holds more than beam_width rows, and it holds as many
\* rows as cumulative probabilities.
C4_BeamSize ==
    InBeam =>
        /\ Len(text_seq) <= beam_width
        /\ Len(text_seq) = Len(probabilities)

C4_Witness ==
    /\ InBeam
    /\ pc = "done"
    /\ steps >= 2
    /\ Len(text_seq) = beam_width

\* C5 as stated: with batch size 1 there are at most max_symbols_per_phrase
\* steps, the length is one more than the number of steps, and the returned
\* length does not exceed max_symbols_per_phrase.
C5_LengthWithinLimit ==
    (BeamRunning /\ b = 1) =>
        /\ steps <= max_symbols_per_phrase
        /\ HypLen = steps + 1
        /\ pc = "done" => HypLen <= max_symbols_per_phrase

\* C5, amended: with batch size 1, inference_beam returns; there are at most
\* max_symbols_per_phrase steps; every step lengthens the rows by one token,
\* from the start token alone; and the returned length does not exceed the
\* larger of 1 and max_symbols_per_phrase.
C5_TerminatesWithinLimit ==
    /\ []((BeamRunning /\ b = 1) =>
            /\ steps <= max_symbols_per_phrase
            /\ HypLen = steps + 1
            /\ HypLen <= Max(1, max_symbols_per_phrase))
    /\ [][steps' # steps => (steps' = steps + 1 /\ HypLen' = HypLen + 1)]_vars
    /\ ((InBeam /\ pc = "entered" /\ b = 1) ~> (pc = "done"))

C5_Witness ==
    /\ InBeam
    /\ pc = "done"
    /\ b = 1
    /\ steps = max_symbols_per_phrase - 1
    /\ HypLen = max_symbols_per_phrase
    /\ steps >= 3

\* C6: row i of the beam has cumulative probability probabilities[i], the
\* product of the probabilities of its tokens along its chain of parents,
\* and the rows are in non-increasing order of it.
C6_RowsMatchProbabilities ==
    BeamRunning =>
        /\ Len(probabilities) = Len(text_seq)
        /\ \A i \in 1 .. Len(text_seq) :
              probabilities[i] = ChainProbability(text_seq[i])
        /\ \A i, j \in 1 .. Len(text_seq) :
              i < j => probabilities[i] >= probabilities[j]

C6_Witness ==
    /\ InBeam
    /\ pc = "done"
    /\ steps >= 2
    /\ Len(text_seq) = 2
    /\ probabilities[1] > probabilities[2]
    /\ probabilities[2] = ChainProbability(text_seq[2])

\* C7: a beam call whose mel has a batch size other than 1 encodes nothing,
\* runs no decoding step and never holds or returns a beam: it is at the
\* assertion or has failed it.
C7_BatchAssert ==
    (InBeam /\ b # 1) =>
        /\ pc \in {"entered", "failed"}
        /\ enc_frames = 0
        /\ mel_emb_frames = 0
        /\ steps = 0
        /\ topk = << >>
        /\ text_seq = << >>

C7_Witness ==
    /\ InBeam
    /\ pc = "failed"
    /\ b = 2

\* C8: when forward is given targets of length L <= max_symbols_per_phrase,
\* each embedded row is the start token, the L targets in order, then only
\* pads, the number of pads being max_symbols_per_phrase - (L + 1) >= 0.
C8_ForwardKeepsTargets ==
    (op = "forward" /\ pc = "done"
        /\ Len(text_targets_in[1]) <= max_symbols_per_phrase) =>
        LET L == Len(text_targets_in[1])
            pads == max_symbols_per_phrase - (L + 1)
        IN  /\ pads >= 0
            /\ \A r \in 1 .. Len(text_targets_in) :
                  text_targets[r] =
                      << NUMBER_SYMBOLS >> \o text_targets_in[r] \o [i \in 1 .. pads |-> 0]

\* C9 as stated: the MelEncoder's output length is floor(T / 4).
C9_FloorQuarter ==
    (op = "none" /\ pc = "done") => enc_frames = mel_T \div 4

\* C9, amended: the MelEncoder's output length is ceil(T / 4): each of the
\* two stride-2 convolutions maps a length n to ceil(n / 2), and the other
\* layers keep the length.
C9_CeilQuarter ==
    (op = "none" /\ pc = "done") =>
        /\ enc_frames = (mel_T + 3) \div 4
        /\ Conv1dOut(mel_T, 5, 2, 2) = (mel_T + 1) \div 2
        /\ Conv1dOut(mel_T, 7, 1, 3) = mel_T
        /\ ResBlock(mel_T) = mel_T

C9_Witness ==
    /\ op = "none"
    /\ pc = "done"
    /\ mel_T = 5
    /\ enc_frames = 2

\* C10: a pruning step keeps min(beam_width, n * k) of the n * k sampled
\* (parent, child) candidates, each with the parent's row followed by the
\* child's token and probability parent * child, and no candidate it drops
\* has a higher probability than one it keeps, whatever the parents.
C10_GlobalTopK ==
    [][ pc = "sampled" =>
          LET n == Len(text_seq)
              Cands == (1 .. n) \X (1 .. beam_width)
              CandProb(c) == probabilities[c[1]] * topk[c[1]].values[c[2]]
              CandSeq(c) == Append(text_seq[c[1]], topk[c[1]].indices[c[2]])
              m == Min(beam_width, n * beam_width)
          IN  /\ Len(text_seq') = m
              /\ Len(probabilities') = m
              /\ \E sel \in [1 .. m -> Cands] :
                    /\ \A r1, r2 \in 1 .. m : r1 # r2 => sel[r1] # sel[r2]
                    /\ \A r \in 1 .. m :
                          /\ text_seq'[r] = CandSeq(sel[r])
                          /\ probabilities'[r] = CandProb(sel[r])
                    /\ \A c \in Cands \ { sel[r] : r \in 1 .. m } :
                          \A r \in 1 .. m : CandProb(c) <= probabilities'[r]
      ]_vars

\* Both kept rows descend from one parent: the other parent kept no child.
C10_Witness ==
    /\ InBeam
    /\ pc \in {"loop", "after_loop"}
    /\ steps >= 2
    /\ Len(text_seq) = 2
    /\ SubSeq(text_seq[1], 1, HypLen - 1) = SubSeq(text_seq[2], 1, HypLen - 1)
    /\ probabilities[1] > probabilities[2]

====
